---- MODULE Spec2Model ----
(***************************************************************************)
(* better-timetagger-cli: the start / stop / resume command logic, the     *)
(* record pipeline and the record-oriented API calls, modelled against a   *)
(* remote record store.                                                    *)
(*                                                                         *)
(* Two revisions of the commands are in the source tree and both are       *)
(* modelled: cli/start.py, cli/stop.py, cli/resume.py (with lib/api.py)    *)
(* and cli/start_cmd.py, cli/stop_cmd.py, cli/resume_cmd.py.               *)
(*                                                                         *)
(* Strings are sequences of one-character strings, so that Python's        *)
(* substring test, strip() and split() are computed and not assumed.       *)
(***************************************************************************)
EXTENDS Integers, Sequences, FiniteSets, TLC

VARIABLES
    store,    \* the remote record store: a sequence of records (server order)
    now,      \* the wall clock, unix seconds
    last,     \* what the command run read, decided, wrote and returned
    call      \* a call of a library function: its arguments, its requests, its result

vars == <<store, now, last, call>>

----------------------------------------------------------------------------
(* Bounds of the model *)

MaxRecords == 3
T0 == 6048000
AgoSeconds == 3600
MaxMenuRecords == 12
MaxPolls == 3
MaxLoads == 4
MaxCommands == 3

(* Program constants *)

DAY == 86400
WEEK == 604800
RESUME_WEEKS == 4
MAX_CHOICES == 10
SEARCH_WINDOW_WEEKS == 4

----------------------------------------------------------------------------
(* Strings *)

SP == " "

IsSpace(c) == c = SP

RECURSIVE LStrip(_)
LStrip(s) == IF s # <<>> /\ IsSpace(Head(s)) THEN LStrip(Tail(s)) ELSE s

RECURSIVE RStrip(_)
RStrip(s) ==
    IF s # <<>> /\ IsSpace(s[Len(s)]) THEN RStrip(SubSeq(s, 1, Len(s) - 1)) ELSE s

\* str.strip()
Strip(s) == RStrip(LStrip(s))

\* s.startswith(p)
StartsWith(s, p) == Len(p) <= Len(s) /\ SubSeq(s, 1, Len(p)) = p

\* Python's `t in s` on strings: t is a contiguous part of s
Contains(s, t) ==
    \E i \in 1..(Len(s) - Len(t) + 1) : SubSeq(s, i, i + Len(t) - 1) = t

\* s.replace(old, ""): every occurrence of old, from the left, is taken out
RECURSIVE Remove(_, _)
Remove(s, old) ==
    IF s = <<>> THEN <<>>
    ELSE IF StartsWith(s, old) THEN Remove(SubSeq(s, Len(old) + 1, Len(s)), old)
    ELSE <<Head(s)>> \o Remove(Tail(s), old)

\* ' '.join(tags)
RECURSIVE Join(_)
Join(tags) ==
    IF tags = <<>> THEN <<>>
    ELSE IF Len(tags) = 1 THEN tags[1]
    ELSE tags[1] \o <<SP>> \o Join(Tail(tags))

\* str.split(): the whitespace-delimited tokens of s
RECURSIVE SplitFrom(_, _, _)
SplitFrom(s, cur, acc) ==
    IF s = <<>> THEN (IF cur = <<>> THEN acc ELSE Append(acc, cur))
    ELSE IF IsSpace(Head(s))
         THEN SplitFrom(Tail(s), <<>>, IF cur = <<>> THEN acc ELSE Append(acc, cur))
         ELSE SplitFrom(Tail(s), Append(cur, Head(s)), acc)

Split(s) == SplitFrom(s, <<>>, <<>>)

Range(f) == {f[i] : i \in DOMAIN f}

\* the string literals the model uses
TagA == <<"#", "a">>
TagB == <<"#", "b">>
TagAB == <<"#", "a", "b">>
HIDDEN == <<"H", "I", "D", "D", "E", "N">>

----------------------------------------------------------------------------
(* Records: {key, t1, t2, mt, st, ds} *)

Rec(k, a, b, m, s, d) == [key |-> k, t1 |-> a, t2 |-> b, mt |-> m, st |-> s, ds |-> d]

IsRunning(r) == r.t1 = r.t2

IsHidden(r) == StartsWith(r.ds, HIDDEN)

\* code points of the characters the model uses, for sorting by "ds"
CharRank(c) ==
    CASE c = " " -> 32 [] c = "#" -> 35
      [] c = "D" -> 68 [] c = "E" -> 69 [] c = "H" -> 72 [] c = "I" -> 73
      [] c = "N" -> 78 [] c = "a" -> 97 [] c = "b" -> 98 [] c = "x" -> 120
      [] OTHER -> 0

RECURSIVE StrLeq(_, _)
StrLeq(s, t) ==
    IF s = <<>> THEN TRUE
    ELSE IF t = <<>> THEN FALSE
    ELSE IF CharRank(Head(s)) # CharRank(Head(t)) THEN CharRank(Head(s)) < CharRank(Head(t))
    ELSE StrLeq(Tail(s), Tail(t))

\* key(a) <= key(b) for the sort key named by sort_by
KeyLeq(a, b, sort_by) ==
    IF sort_by = "ds" THEN StrLeq(a.ds, b.ds) ELSE a[sort_by] <= b[sort_by]

\* list.sort(key=..., reverse=...): stable; with reverse the equal elements
\* keep their original order too
RECURSIVE InsertSorted(_, _, _, _)
InsertSorted(r, sorted, sort_by, sort_reverse) ==
    IF sorted = <<>> THEN <<r>>
    ELSE LET h == Head(sorted)
             stays == IF sort_reverse THEN KeyLeq(r, h, sort_by) ELSE KeyLeq(h, r, sort_by)
         IN IF stays THEN <<h>> \o InsertSorted(r, Tail(sorted), sort_by, sort_reverse)
            ELSE <<r>> \o sorted

RECURSIVE SortFrom(_, _, _, _)
SortFrom(recs, acc, sort_by, sort_reverse) ==
    IF recs = <<>> THEN acc
    ELSE SortFrom(Tail(recs), InsertSorted(Head(recs), acc, sort_by, sort_reverse),
                  sort_by, sort_reverse)

SortRecords(recs, sort_by, sort_reverse) == SortFrom(recs, <<>>, sort_by, sort_reverse)

----------------------------------------------------------------------------
(* Tag matching and the record pipeline *)

\* any(...) / all(...) over `tag in record["ds"]`
check_record_tags_match(record, tags, tags_match) ==
    IF tags_match = "any"
    THEN \E i \in DOMAIN tags : Contains(record.ds, tags[i])
    ELSE \A i \in DOMAIN tags : Contains(record.ds, tags[i])

\* r.get(field, default)
Get(r, field, default) == IF field \in DOMAIN r THEN r[field] ELSE default

\* mutant of normalize: t1 is read from the field t2
normalizeT1FromT2(r) ==
    [key |-> Get(r, "key", ""), mt |-> Get(r, "mt", 0), t1 |-> Get(r, "t2", 0),
     t2 |-> Get(r, "t2", 0), ds |-> Get(r, "ds", <<>>), st |-> Get(r, "st", 0)]

\* normalize_records: every record gets the six fields, a missing string as "",
\* a missing number as 0
normalize(r) ==
    [key |-> Get(r, "key", ""), mt |-> Get(r, "mt", 0), t1 |-> Get(r, "t1", 0),
     t2 |-> Get(r, "t2", 0), ds |-> Get(r, "ds", <<>>), st |-> Get(r, "st", 0)]

normalize_records(records) == [i \in DOMAIN records |-> normalize(records[i])]

\* `if tags:` keep the records matching the tags
FilterTags(records, tags, tags_match) ==
    LET MatchTags(r) == check_record_tags_match(r, tags, tags_match)
    IN IF tags # <<>> THEN SelectSeq(records, MatchTags) ELSE records

\* `if not include_hidden:` drop the records whose ds starts with HIDDEN
FilterHidden(records, include_hidden) ==
    LET Visible(r) == ~IsHidden(r)
    IN IF ~include_hidden THEN SelectSeq(records, Visible) ELSE records

\* sort, filter by tags, drop the hidden records
post_process_records(records, include_hidden, tags, tags_match, sort_by, sort_reverse) ==
    FilterHidden(FilterTags(SortRecords(normalize_records(records), sort_by, sort_reverse),
                            tags, tags_match),
                 include_hidden)

\* {obj["key"]: obj for obj in updated_data}: the entries in the order their keys
\* first came, each key holding the last object that has it
RECURSIVE updates_key_map(_, _)
updates_key_map(updated_data, map) ==
    IF updated_data = <<>> THEN map
    ELSE LET obj == Head(updated_data)
             held == \E i \in DOMAIN map : map[i].key = obj.key
         IN updates_key_map(Tail(updated_data),
                IF held
                THEN [i \in DOMAIN map |-> IF map[i].key = obj.key THEN obj ELSE map[i]]
                ELSE Append(map, obj))

\* mutant of merge_loop: the update is looked up but stays in the map
RECURSIVE merge_loopGet(_, _, _)
merge_loopGet(original_data, map, merged_data) ==
    IF original_data = <<>> THEN merged_data \o map
    ELSE LET obj == Head(original_data)
             Other(o) == o.key # obj.key
             Same(o) == o.key = obj.key
             found == SelectSeq(map, Same)
         IN merge_loopGet(Tail(original_data), map,
                Append(merged_data, IF found = <<>> THEN obj ELSE found[1]))
\* while original_data: pop(0) the next original, pop its update from the map
\* (the original itself when there is none), append; at the end the values left
\* in the map are appended
RECURSIVE merge_loop(_, _, _)
merge_loop(original_data, map, merged_data) ==
    IF original_data = <<>> THEN merged_data \o map
    ELSE LET obj == Head(original_data)
             Other(o) == o.key # obj.key
             Same(o) == o.key = obj.key
             found == SelectSeq(map, Same)
         IN merge_loop(Tail(original_data), SelectSeq(map, Other),
                Append(merged_data, IF found = <<>> THEN obj ELSE found[1]))

merge_by_key(updated_data, original_data) ==
    merge_loop(original_data, updates_key_map(updated_data, <<>>), <<>>)

----------------------------------------------------------------------------
(* The remote record store (the server side of the wire protocol) *)

\* GET /records?timerange=a-b: the records overlapping [a, b]; with a > b the
\* records lying inside [b, a]
ServerGetRecords(st, a, b) ==
    LET Overlaps(r) == r.t1 <= b /\ r.t2 >= a
        Inside(r) == r.t1 >= b /\ r.t2 <= a
    IN IF a <= b THEN SelectSeq(st, Overlaps) ELSE SelectSeq(st, Inside)

\* PUT /records: each record replaces the stored record with its key, or is added
RECURSIVE ServerPutRecords(_, _, _)
ServerPutRecords(st, batch, server_time) ==
    IF batch = <<>> THEN st
    ELSE LET r == [Head(batch) EXCEPT !.st = server_time]
             known == \E i \in DOMAIN st : st[i].key = r.key
             merged == IF known
                       THEN [i \in DOMAIN st |-> IF st[i].key = r.key THEN r ELSE st[i]]
                       ELSE Append(st, r)
         IN ServerPutRecords(merged, Tail(batch), server_time)

----------------------------------------------------------------------------
(* API calls *)

\* mutant of get_records_timerange: the range is ordered whatever the flag says
get_records_timerangeOrdered(start, end, include_partial_match) ==
    <<IF start <= end THEN start ELSE end, IF start <= end THEN end ELSE start>>
\* the pair <<t1, t2>> that get_records puts in "records?timerange={t1}-{t2}"
get_records_timerange(start, end, include_partial_match) ==
    LET min == IF start <= end THEN start ELSE end
        max == IF start <= end THEN end ELSE start
    IN <<IF include_partial_match THEN min ELSE max,
         IF include_partial_match THEN max ELSE min>>

\* the requests get_records sends
get_records_requests(start, end, include_partial_match) ==
    <<[method |-> "GET", path |-> "records",
       timerange |-> get_records_timerange(start, end, include_partial_match)]>>

get_records(st, start, end, include_partial_match, include_hidden, tags, tags_match, sort_by, sort_reverse) ==
    LET timerange == get_records_timerange(start, end, include_partial_match)
    IN post_process_records(ServerGetRecords(st, timerange[1], timerange[2]), include_hidden,
                            tags, tags_match, sort_by, sort_reverse)

\* lib/api.py: the running records within one day around now
get_runnning_records(st, nw, tags, tags_match, sort_by, sort_reverse) ==
    SelectSeq(get_records(st, nw - DAY, nw + DAY, TRUE, FALSE, tags, tags_match,
                       sort_by, sort_reverse),
           IsRunning)

\* the later revision: the running records within the configured search window
get_running_records(st, nw, tags, tags_match, sort_by, sort_reverse) ==
    SelectSeq(get_records(st, nw - SEARCH_WINDOW_WEEKS * WEEK, nw + DAY, TRUE, FALSE,
                       tags, tags_match, sort_by, sort_reverse),
           IsRunning)

\* GET /updates?since=: the records the server changed after since
ServerGetUpdates(st, since) ==
    LET Changed(r) == r.st > since
    IN SelectSeq(st, Changed)

\* get_updates(since, ...): the changed records, through the pipeline
get_updates(st, since, include_hidden, tags, tags_match, sort_by, sort_reverse) ==
    post_process_records(ServerGetUpdates(st, since), include_hidden, tags, tags_match,
                         sort_by, sort_reverse)

\* put_records(...): one PUT /records with the flattened batch
put_records(batch) == <<batch>>

----------------------------------------------------------------------------
(* Command results *)

\* what is known of a command run: its inputs, what it fetched, what it wrote
NoCmd ==
    [cmd |-> "none", rev |-> "none", tags |-> <<>>, tags_match |-> "all", keep |-> FALSE,
     select |-> FALSE, at |-> "none", now |-> 0, stop_t |-> 0, description |-> <<>>,
     running |-> <<>>, records |-> <<>>, choices |-> <<>>, selected |-> <<>>,
     new |-> <<>>, stopped |-> <<>>, puts |-> <<>>, exit |-> 0, outcome |-> "ok",
     msg |-> "none", before |-> <<>>, resume_tags |-> <<>>, resume_match |-> "all",
     resume_description |-> <<>>, keys |-> {}]

\* no library call made
NoCall == [fn |-> "none"]

\* abort(message): print the message, exit(1)
abort(run, message) == [run EXCEPT !.exit = 1, !.outcome = "abort", !.msg = message]

\* an exception nothing catches: a traceback, and the interpreter exits with status 1
uncaught(run, exception) == [run EXCEPT !.exit = 1, !.outcome = exception, !.msg = "traceback"]

\* parse_at(at): None (t = <<>>) when no time is given, else the parsed timestamp;
\* aborts when the text cannot be parsed
parse_at(at, nw) ==
    CASE at = "none" -> [aborted |-> FALSE, t |-> <<>>]
      [] at = "ago" -> [aborted |-> FALSE, t |-> <<nw - AgoSeconds>>]
      [] OTHER -> [aborted |-> TRUE, t |-> <<>>]

\* `parse_at(at) or now`
OrNow(parsed, nw) == IF parsed.t = <<>> \/ parsed.t[1] = 0 THEN nw ELSE parsed.t[1]

\* create_record_key(): a key no other record of the store has
create_record_key(st) == Len(st) + 1

\* IntPrompt.ask(choices=[0..n-1], default=0) on the typed text (Blank, or
\* <<k>> for a number k): blank input gives the default, a listed choice gives
\* its number, anything else is asked again (<<>>)
Blank == <<>>
IntPromptAsk(n, input) ==
    IF input = Blank THEN <<0>>
    ELSE IF input[1] \in 0..(n - 1) THEN input
    ELSE <<>>

----------------------------------------------------------------------------
(* start *)

\* mutants of StopIt: the tag filter applied in both revisions, in neither, and
\* the keep flag ignored
StopItFilterBoth(rev, r, keep, tags, tags_match) ==
    ~keep /\ check_record_tags_match(r, tags, tags_match)

StopItFilterNone(rev, r, keep, tags, tags_match) == ~keep

StopItIgnoreKeep(rev, r, keep, tags, tags_match) ==
    IF rev = "py" THEN check_record_tags_match(r, tags, tags_match) ELSE TRUE

\* whether start stops the running record r: start.py stops the records matching
\* the tags, start_cmd.py stops every record; neither does in keep mode
StopIt(rev, r, keep, tags, tags_match) ==
    IF rev = "py"
    THEN ~keep /\ check_record_tags_match(r, tags, tags_match)
    ELSE ~keep

\* mutant of StartLoop: the duplicate test is skipped for a record that is stopped
RECURSIVE StartLoopElif(_, _, _, _, _, _, _, _)
StartLoopElif(rev, running, i, stopped, description, keep, tags, tags_match) ==
    IF i > Len(running) THEN [aborted |-> FALSE, stopped |-> stopped]
    ELSE LET r == running[i]
         IN IF StopIt(rev, r, keep, tags, tags_match)
            THEN StartLoopElif(rev, running, i + 1, Append(stopped, r),
                               description, keep, tags, tags_match)
            ELSE IF r.ds = description THEN [aborted |-> TRUE, stopped |-> stopped]
            ELSE StartLoopElif(rev, running, i + 1, stopped, description, keep, tags, tags_match)

\* the loop over the running records of start.py / start_cmd.py: aborts at the
\* first record with the new description, else gives the records to stop
RECURSIVE StartLoop(_, _, _, _, _, _, _, _)
StartLoop(rev, running, i, stopped, description, keep, tags, tags_match) ==
    IF i > Len(running) THEN [aborted |-> FALSE, stopped |-> stopped]
    ELSE LET r == running[i]
         IN IF r.ds = description THEN [aborted |-> TRUE, stopped |-> stopped]
            ELSE StartLoop(rev, running, i + 1,
                           IF StopIt(rev, r, keep, tags, tags_match)
                           THEN Append(stopped, r) ELSE stopped,
                           description, keep, tags, tags_match)

\* mutant of StopAt: the server time of the record is overwritten as well
StopAtTouchSt(r, t2, mt) == [r EXCEPT !.t2 = t2, !.mt = mt, !.st = 0]
\* r["t2"] = now; r["mt"] = now
StopAt(r, t2, mt) == [r EXCEPT !.t2 = t2, !.mt = mt]

\* put_records([new_record, *stopped_records])
StartPut(run, new_record, stopped) ==
    [run EXCEPT !.new = <<new_record>>, !.stopped = stopped,
                !.puts = put_records(<<new_record>> \o stopped)]

\* after the loop: abort on a duplicate, else stop the records and write
StartLooped(run, st, nw, description, start_t, looped) ==
    IF looped.aborted THEN abort(run, "duplicate")
    ELSE StartPut(run, Rec(create_record_key(st), start_t, start_t, nw, 0, description),
                  [i \in DOMAIN looped.stopped |-> StopAt(looped.stopped[i], nw, nw)])

\* the checks of start, then the loop over the running records
StartFetched(run, rev, st, nw, tags, empty, keep, tags_match, description, parsed, running) ==
    IF description = <<>> /\ ~empty THEN abort(run, "empty")
    ELSE IF parsed.aborted THEN abort(run, "bad_at")
    ELSE StartLooped([run EXCEPT !.running = running], st, nw, description, OrNow(parsed, nw),
                     StartLoop(rev, running, 1, <<>>, description, keep, tags, tags_match))

StartDescribed(run, rev, st, nw, tags, at, empty, keep, tags_match, description) ==
    StartFetched([run EXCEPT !.tags = tags, !.tags_match = tags_match, !.keep = keep,
                             !.at = at, !.now = nw, !.description = description],
                 rev, st, nw, tags, empty, keep, tags_match, description, parse_at(at, nw),
                 IF rev = "py"
                 THEN get_runnning_records(st, nw, <<>>, "any", "t2", TRUE)
                 ELSE get_running_records(st, nw, <<>>, "any", "t2", TRUE))

\* the body of start (cli/start.py, rev "py") and start_cmd (cli/start_cmd.py, rev "cmd")
StartRun(run, rev, st, nw, tags, at, descr, empty, keep, tags_match) ==
    StartDescribed(run, rev, st, nw, tags, at, empty, keep, tags_match,
                   Strip(Join(tags) \o <<SP>> \o descr))

\* the store after the batches of a command run reached the server
RECURSIVE ApplyPuts(_, _, _)
ApplyPuts(st, puts, server_time) ==
    IF puts = <<>> THEN st
    ELSE ApplyPuts(ServerPutRecords(st, Head(puts), server_time), Tail(puts), server_time)

Commit(run) ==
    /\ last' = [run EXCEPT !.before = store]
    /\ store' = ApplyPuts(store, run.puts, now)
    /\ UNCHANGED <<now, call>>

\* the command ends once the prompt has an answer it accepts
CommitAnswered(run) ==
    /\ run.outcome # "asking"
    /\ Commit(run)

----------------------------------------------------------------------------
(* stop *)

\* the loop of stop.py / stop_cmd.py: the running records matching the tags
StopMatching(running, tags, tags_match) ==
    LET Matches(r) == check_record_tags_match(r, tags, tags_match)
    IN SelectSeq(running, Matches)

\* mutant of StopMt: both revisions write the stop time
StopMtStopTime(rev, stop_t, nw) == stop_t

\* r["mt"] of a record stopped by stop: stop.py writes stop_t, stop_cmd.py now
StopMt(rev, stop_t, nw) == IF rev = "py" THEN stop_t ELSE nw

\* select mode of stop_cmd.py: the record at the selected index is stopped
StopSelected(run, stopped) ==
    IF run.selected = <<>> THEN [run EXCEPT !.outcome = "asking"]
    ELSE IF run.selected[1] + 1 > Len(stopped) THEN uncaught(run, "IndexError")
    ELSE [run EXCEPT !.stopped = <<stopped[run.selected[1] + 1]>>,
                     !.puts = put_records(<<stopped[run.selected[1] + 1]>>)]

\* without select: every matching record is stopped; stop_cmd.py aborts when
\* there is none
StopEvery(run, rev, stopped) ==
    IF rev = "cmd" /\ stopped = <<>> THEN abort(run, "no_match")
    ELSE [run EXCEPT !.stopped = stopped, !.puts = put_records(stopped)]

StopMatched(run, rev, nw, select, input, stop_t, matching) ==
    IF ~select
    THEN StopEvery(run, rev,
                   [i \in DOMAIN matching |->
                        StopAt(matching[i], stop_t, StopMt(rev, stop_t, nw))])
    ELSE StopSelected([run EXCEPT !.choices = matching,
                                  !.selected = IntPromptAsk(Len(matching), input)],
                      [i \in DOMAIN matching |->
                           StopAt(matching[i], stop_t, StopMt(rev, stop_t, nw))])

StopFetched(run, rev, nw, tags, select, tags_match, input, parsed, running) ==
    IF rev = "py" /\ running = <<>> THEN abort(run, "no_running")
    ELSE IF parsed.aborted THEN abort(run, "bad_at")
    ELSE StopMatched([run EXCEPT !.stop_t = OrNow(parsed, nw)], rev, nw, select, input,
                     OrNow(parsed, nw), StopMatching(running, tags, tags_match))

StopStarted(run, rev, nw, tags, at, select, tags_match, input, running) ==
    StopFetched([run EXCEPT !.tags = tags, !.tags_match = tags_match, !.select = select,
                            !.at = at, !.now = nw, !.running = running],
                rev, nw, tags, select, tags_match, input, parse_at(at, nw), running)

\* the body of stop (cli/stop.py, rev "py": no select mode) and of stop_cmd
\* (cli/stop_cmd.py, rev "cmd"); input is the text typed at the prompt
StopRun(run, rev, st, nw, tags, at, select, tags_match, input) ==
    StopStarted(run, rev, nw, tags, at, select, tags_match, input,
                IF rev = "py"
                THEN get_runnning_records(st, nw, <<>>, "any", "t2", TRUE)
                ELSE get_running_records(st, nw, <<>>, "any", "t1", FALSE))

----------------------------------------------------------------------------
(* resume *)

\* datetime(now_dt.year, now_dt.month, now_dt.day): midnight of the day of now
Today(nw) == nw - (nw % DAY)

\* mutant of ResumeChoices: the cap is tested before the choice is added
RECURSIVE ResumeChoicesLateCap(_, _)
ResumeChoicesLateCap(records, choices) ==
    IF records = <<>> THEN choices
    ELSE LET d == Strip(Head(records).ds)
         IN IF \E i \in DOMAIN choices : d = choices[i]
            THEN ResumeChoicesLateCap(Tail(records), choices)
            ELSE IF Len(choices) >= MAX_CHOICES THEN Append(choices, d)
            ELSE ResumeChoicesLateCap(Tail(records), Append(choices, d))

\* the menu of resume: the trimmed descriptions, each once, at most 10
RECURSIVE ResumeChoices(_, _)
ResumeChoices(records, choices) ==
    IF records = <<>> THEN choices
    ELSE LET d == Strip(Head(records).ds)
         IN IF \E i \in DOMAIN choices : d = choices[i]
            THEN ResumeChoices(Tail(records), choices)
            ELSE IF Len(choices) + 1 >= MAX_CHOICES THEN Append(choices, d)
            ELSE ResumeChoices(Tail(records), Append(choices, d))

\* records[0]["ds"].strip()
ResumeDescription(r) == Strip(r.ds)

\* mutant of ResumeRecords: sorted by end time, oldest first
ResumeRecordsOldestFirst(st, nw, tags, tags_match) ==
    get_records(st, Today(nw) - RESUME_WEEKS * WEEK, Today(nw) + DAY, TRUE, FALSE,
                tags, tags_match, "t2", FALSE)

\* the records resume fetches: from four weeks before today to tomorrow, not
\* hidden, passing the tags, sorted by end time, latest first
ResumeRecords(st, nw, tags, tags_match) ==
    LET today == Today(nw)
        tomorrow == today + DAY
        last_month == today - RESUME_WEEKS * WEEK
    IN get_records(st, last_month, tomorrow, TRUE, FALSE, tags, tags_match, "t2", TRUE)

\* ctx.invoke(start, description=..., keep=keep): no tags, the default mode;
\* resume_cmd.py passes --at on
InvokeStart(run, rev, st, nw, at, keep, resume_description) ==
    StartRun([run EXCEPT !.resume_description = resume_description], rev, st, nw,
             <<>>, IF rev = "py" THEN "none" ELSE at, resume_description, FALSE, keep, "all")

\* the answer at the prompt of the menu
ResumeAnswered(run, rev, st, nw, at, keep, choices, answer) ==
    IF answer = <<>> THEN [run EXCEPT !.outcome = "asking"]
    ELSE InvokeStart([run EXCEPT !.selected = answer], rev, st, nw, at, keep,
                     choices[answer[1] + 1])

ResumeMenu(run, rev, st, nw, at, keep, input, choices) ==
    ResumeAnswered([run EXCEPT !.choices = choices], rev, st, nw, at, keep, choices,
                   IntPromptAsk(Len(choices), input))

ResumeFetched(run, rev, st, nw, at, keep, select, input, records) ==
    IF records = <<>> THEN abort(run, "no_records")
    ELSE IF ~select \/ Len(records) = 1
    THEN InvokeStart(run, rev, st, nw, at, keep, ResumeDescription(records[1]))
    ELSE ResumeMenu(run, rev, st, nw, at, keep, input, ResumeChoices(records, <<>>))

ResumeStarted(run, rev, st, nw, tags, at, keep, select, tags_match, input, records) ==
    ResumeFetched([run EXCEPT !.records = records, !.select = select, !.resume_tags = tags,
                              !.resume_match = tags_match, !.now = nw, !.keep = keep],
                  rev, st, nw, at, keep, select, input, records)

\* the body of resume (cli/resume.py, rev "py") and resume_cmd (cli/resume_cmd.py,
\* rev "cmd")
ResumeRun(run, rev, st, nw, tags, at, keep, select, tags_match, input) ==
    ResumeStarted(run, rev, st, nw, tags, at, keep, select, tags_match, input,
                  ResumeRecords(st, nw, tags, tags_match))

----------------------------------------------------------------------------
(* restore *)

\* the marker restore takes out of a description
HIDDEN_MARKER == HIDDEN \o <<SP>>

\* r["ds"] = r["ds"].replace("HIDDEN ", "").strip(); r["mt"] = now
Restored(r, nw) == [r EXCEPT !.ds = Strip(Remove(r.ds, HIDDEN_MARKER)), !.mt = nw]

\* the loop of restore_cmd.py: the fetched records with a requested key
RestoreLoop(records, keys, nw) ==
    LET Requested(r) == r.key \in keys
        found == SelectSeq(records, Requested)
    IN [i \in DOMAIN found |-> Restored(found[i], nw)]

RestoreFetched(run, restored_records) ==
    [run EXCEPT !.stopped = restored_records, !.puts = put_records(restored_records)]

\* the body of restore_cmd (cli/restore_cmd.py): the records come from
\* get_updates() with its defaults
RestoreRun(run, st, nw, keys) ==
    IF keys = {} THEN abort([run EXCEPT !.keys = keys, !.now = nw], "no_keys")
    ELSE RestoreFetched([run EXCEPT !.keys = keys, !.now = nw,
                                    !.records = get_updates(st, 0, FALSE, <<>>, "any", "t2", TRUE)],
                        RestoreLoop(get_updates(st, 0, FALSE, <<>>, "any", "t2", TRUE), keys, nw))

----------------------------------------------------------------------------
(* Inputs *)

TagPool == {TagA, TagB}

\* the tag lists a command can receive: no tag twice, in any order
TagLists ==
    {t \in UNION {[1..n -> TagPool] : n \in 0..Cardinality(TagPool)} :
        \A i, j \in DOMAIN t : i # j => t[i] # t[j]}

Descriptions == {<<>>, <<"x">>}
AtInputs == {"none", "ago", "bad"}
Modes == {"any", "all"}
PromptInputs == {Blank} \cup {<<k>> : k \in 0..MaxRecords}

\* the records found on the server: written by earlier command runs and by
\* other clients of the same store
DescAB == <<SP>> \o TagA \o <<SP>> \o TagB \o <<SP>>
DescHidden == HIDDEN \o <<SP>> \o TagA

StorePool ==
    << <<TagA, "running">>, <<TagA, "stopped">>, <<TagA, "old">>,
       <<TagB, "running">>, <<TagB, "stopped">>,
       <<TagAB, "running">>,
       <<DescAB, "running">>, <<DescAB, "stopped">>,
       <<DescHidden, "running">>, <<DescHidden, "stopped">> >>

\* running: started an hour ago; stopped: two hours ago; old: before the
\* weeks that resume looks at
StoredRecord(key, n, nw) ==
    LET ds == StorePool[n][1]
        kind == StorePool[n][2]
        t2 == CASE kind = "running" -> nw - AgoSeconds
                [] kind = "stopped" -> nw - 2 * AgoSeconds
                [] OTHER -> nw - (RESUME_WEEKS + 1) * WEEK
        t1 == IF kind = "running" THEN t2 ELSE t2 - AgoSeconds
    IN Rec(key, t1, t2, t2, t2, ds)

\* the server keeps its records in one order
StoreRank(r, nw) == CHOOSE n \in DOMAIN StorePool : StoredRecord(r.key, n, nw) = r

\* the argument lists the commands are run with
StartArgs ==
    {a \in [tags : TagLists, at : AtInputs, descr : Descriptions, empty : BOOLEAN,
            keep : BOOLEAN, tags_match : Modes] :
        /\ a.descr # <<>> => a.tags = <<>>
        /\ a.empty => a.tags = <<>> /\ a.descr = <<>>
        /\ a.at # "none" => a.tags = <<TagA>>}

StopArgs ==
    {a \in [tags : TagLists, at : AtInputs, select : BOOLEAN, tags_match : Modes,
            input : PromptInputs] :
        /\ a.at # "none" => Len(a.tags) <= 1 /\ a.tags # <<TagB>>
        /\ ~a.select => a.input = Blank
        /\ a.select => a.tags_match = "all" /\ a.at # "bad"}

ResumeArgs ==
    {a \in [tags : TagLists, at : AtInputs, keep : BOOLEAN, select : BOOLEAN,
            tags_match : Modes, input : PromptInputs] :
        /\ a.at # "none" => a.tags = <<>> /\ ~a.select /\ ~a.keep
        /\ ~a.select => a.input = Blank
        /\ a.select => a.tags_match = "all" /\ ~a.keep}

----------------------------------------------------------------------------
(* Actions: the server's records are laid down, then one command runs *)

Fresh == last.cmd = "none"

Room == Len(store) < MaxRecords

start(a) ==
    /\ Fresh
    /\ Commit(StartRun([NoCmd EXCEPT !.cmd = "start", !.rev = "py"], "py", store, now,
                       a.tags, a.at, a.descr, a.empty, a.keep, a.tags_match))

start_cmd(a) ==
    /\ Fresh
    /\ a.tags_match = "all"
    /\ Commit(StartRun([NoCmd EXCEPT !.cmd = "start", !.rev = "cmd"], "cmd", store, now,
                       a.tags, a.at, a.descr, a.empty, a.keep, "all"))

stop(a) ==
    /\ Fresh
    /\ ~a.select
    /\ Commit(StopRun([NoCmd EXCEPT !.cmd = "stop", !.rev = "py"], "py", store, now,
                      a.tags, a.at, FALSE, a.tags_match, Blank))

stop_cmd(a) ==
    /\ Fresh
    /\ CommitAnswered(StopRun([NoCmd EXCEPT !.cmd = "stop", !.rev = "cmd"], "cmd", store, now,
                              a.tags, a.at, a.select, a.tags_match, a.input))

resume(a) ==
    /\ Fresh
    /\ a.at = "none"
    /\ CommitAnswered(ResumeRun([NoCmd EXCEPT !.cmd = "resume", !.rev = "py"], "py", store, now,
                                a.tags, "none", a.keep, a.select, a.tags_match, a.input))

resume_cmd(a) ==
    /\ Fresh
    /\ CommitAnswered(ResumeRun([NoCmd EXCEPT !.cmd = "resume", !.rev = "cmd"], "cmd", store, now,
                                a.tags, a.at, a.keep, a.select, a.tags_match, a.input))

restore_cmd(keys) ==
    /\ Fresh
    /\ Commit(RestoreRun([NoCmd EXCEPT !.cmd = "restore", !.rev = "cmd"], store, now, keys))

\* a record is on the server before the command runs
ServerHas(n) ==
    LET r == StoredRecord(create_record_key(store), n, now)
    IN /\ Fresh /\ Room
       /\ \A i \in DOMAIN store : StoreRank(store[i], now) <= StoreRank(r, now)
       /\ store' = Append(store, r)
       /\ UNCHANGED <<now, last, call>>

Init ==
    /\ store = <<>>
    /\ now = T0
    /\ last = NoCmd
    /\ call = NoCall

Seed == Fresh /\ \E n \in DOMAIN StorePool : ServerHas(n)
RunStart == Fresh /\ \E a \in StartArgs : start(a)
RunStartCmd == Fresh /\ \E a \in StartArgs : start_cmd(a)
RunStop == Fresh /\ \E a \in StopArgs : stop(a)
RunStopCmd == Fresh /\ \E a \in StopArgs : stop_cmd(a)
RunResume == Fresh /\ \E a \in ResumeArgs : resume(a)
RunResumeCmd == Fresh /\ \E a \in ResumeArgs : resume_cmd(a)
RunRestoreCmd == Fresh /\ \E keys \in SUBSET (1..MaxRecords) : restore_cmd(keys)

Next ==
    \/ Seed
    \/ RunStart
    \/ RunStartCmd
    \/ RunStop
    \/ RunStopCmd
    \/ RunResume
    \/ RunResumeCmd
    \/ RunRestoreCmd

Spec == Init /\ [][Next]_vars

----------------------------------------------------------------------------
(* The menu of resume: stores long enough to fill it *)

\* "#a" followed by j letters: a different description for every j
RECURSIVE MenuDesc(_)
MenuDesc(j) == IF j = 0 THEN TagA ELSE Append(MenuDesc(j - 1), "x")

\* n stopped records of the last hours that repeat p descriptions in turn, the
\* repetitions padded with spaces or not, lying in the store latest first or
\* latest last
MenuRecord(i, n, p, padded, latest_first, nw) ==
    LET d == MenuDesc((i - 1) % p)
        ds == IF padded /\ i > p THEN <<SP>> \o d \o <<SP>> ELSE d
        t2 == IF latest_first THEN nw - 60 * i ELSE nw - 60 * (n - i + 1)
    IN Rec(i, t2 - 30, t2, t2, t2, ds)

MenuStore(n, p, padded, latest_first, nw) ==
    [i \in 1..n |-> MenuRecord(i, n, p, padded, latest_first, nw)]

MenuInputs == {Blank} \cup {<<k>> : k \in 0..MAX_CHOICES}

MenuArgs ==
    [tags : {<<>>, <<TagA>>}, at : {"none"}, keep : {TRUE}, select : BOOLEAN,
     tags_match : {"all"}, input : MenuInputs]

InitMenu ==
    /\ store \in {MenuStore(n, p, padded, latest_first, T0) :
                     n \in 0..MaxMenuRecords, p \in 1..MaxMenuRecords,
                     padded \in BOOLEAN, latest_first \in BOOLEAN}
    /\ now = T0
    /\ last = NoCmd
    /\ call = NoCall

RunMenuResume == Fresh /\ \E a \in MenuArgs : resume(a)
RunMenuResumeCmd == Fresh /\ \E a \in MenuArgs : resume_cmd(a)

NextMenu ==
    \/ RunMenuResume
    \/ RunMenuResumeCmd

SpecMenu == InitMenu /\ [][NextMenu]_vars

----------------------------------------------------------------------------
(* Calls of the library functions, on the records a server can send *)

NoCallYet == call.fn = "none"

\* records as the server sends them
LibVisible == [key |-> "k1", t1 |-> 100, t2 |-> 200, mt |-> 200, st |-> 200, ds |-> TagA]
LibHidden == [key |-> "k2", t1 |-> 100, t2 |-> 300, mt |-> 300, st |-> 300,
              ds |-> HIDDEN \o <<SP>> \o TagA]
LibRunning == [key |-> "k3", t1 |-> 400, t2 |-> 400, mt |-> 400, st |-> 400, ds |-> TagAB]
LibBare == [key |-> "k4", t2 |-> 250]

LibRecords == {LibVisible, LibHidden, LibRunning, LibBare}

\* the lists of at most MaxRecords of these records, none twice
LibLists ==
    {l \in UNION {[1..n -> LibRecords] : n \in 0..MaxRecords} :
        \A i, j \in DOMAIN l : i # j => l[i] # l[j]}

post_process(a) ==
    /\ NoCallYet
    /\ call' = [fn |-> "post_process_records", records |-> a.records,
                include_hidden |-> a.include_hidden, tags |-> a.tags,
                tags_match |-> a.tags_match,
                result |-> post_process_records(a.records, a.include_hidden, a.tags,
                                                a.tags_match, a.sort_by, a.sort_reverse)]
    /\ UNCHANGED <<store, now, last>>

PostProcessArgs ==
    [records : LibLists, include_hidden : BOOLEAN, tags : {<<>>, <<TagA>>},
     tags_match : Modes, sort_by : {"t2", "ds"}, sort_reverse : BOOLEAN]

CallPostProcess == NoCallYet /\ \E a \in PostProcessArgs : post_process(a)

\* the record LibHidden with any of its fields left out
RawRecords == {[f \in D |-> LibHidden[f]] : D \in SUBSET DOMAIN LibHidden}

\* normalize_records(records), and normalize_records of its result
normalize_call(records) ==
    /\ NoCallYet
    /\ call' = [fn |-> "normalize_records", records |-> records,
                result |-> normalize_records(records),
                again |-> normalize_records(normalize_records(records))]
    /\ UNCHANGED <<store, now, last>>

CallNormalize ==
    NoCallYet /\ \E r \in RawRecords : \E l \in {<<r>>, <<r, LibBare>>, <<LibVisible, r>>} :
        normalize_call(l)

\* the records the server holds when the library is called
LibStore == <<LibVisible, LibHidden, LibRunning>>

get_records_call(a) ==
    /\ NoCallYet
    /\ call' = [fn |-> "get_records", start |-> a.start, end |-> a.end,
                include_partial_match |-> a.include_partial_match,
                include_hidden |-> a.include_hidden,
                requests |-> get_records_requests(a.start, a.end, a.include_partial_match),
                result |-> get_records(LibStore, a.start, a.end, a.include_partial_match,
                                       a.include_hidden, <<>>, "any", "t2", TRUE)]
    /\ UNCHANGED <<store, now, last>>

GetRecordsArgs ==
    [start : {100, 200, 300, 400}, end : {100, 200, 300, 400}, include_partial_match : BOOLEAN,
     include_hidden : BOOLEAN]

CallGetRecords == NoCallYet /\ \E a \in GetRecordsArgs : get_records_call(a)

\* the positional arguments of a put_records call: one record, or a list of
\* records (kind says which; a single record is held as the one element of records)
PutItems ==
    {[kind |-> "record", records |-> <<LibVisible>>],
     [kind |-> "record", records |-> <<LibRunning>>],
     [kind |-> "list", records |-> <<>>],
     [kind |-> "list", records |-> <<LibVisible>>],
     [kind |-> "list", records |-> <<LibHidden, LibRunning>>]}

\* put_records(records) takes one positional argument and hands it to
\* _request("PUT", "records", records) as the JSON body; any other number of
\* arguments raises TypeError before anything is sent
put_records_call(args) ==
    /\ NoCallYet
    /\ call' = [fn |-> "put_records", args |-> args,
                raised |-> IF Len(args) = 1 THEN "none" ELSE "TypeError",
                requests |-> IF Len(args) = 1
                             THEN <<[method |-> "PUT", path |-> "records",
                                     json |-> IF args[1].kind = "list" THEN "array"
                                              ELSE "object",
                                     records |-> args[1].records]>>
                             ELSE <<>>]
    /\ UNCHANGED <<store, now, last>>

CallPutRecords ==
    NoCallYet /\ \E args \in UNION {[1..n -> PutItems] : n \in 1..2} : put_records_call(args)

\* updates the server sends: k1 retagged, k3 stopped, k5 new
LibUpdates ==
    {[LibVisible EXCEPT !.ds = TagAB, !.mt = 500, !.st = 500],
     [LibRunning EXCEPT !.t2 = 500, !.mt = 500, !.st = 500],
     [key |-> "k5", t1 |-> 450, t2 |-> 450, mt |-> 450, st |-> 500, ds |-> TagA]}

\* the lists of at most MaxRecords records of a set, no key twice
KeyedLists(S) ==
    {l \in UNION {[1..n -> S] : n \in 0..MaxRecords} :
        \A i, j \in DOMAIN l : i # j => l[i].key # l[j].key}

\* merge_by_key(updated_data, original_data); the loop `while original_data:
\* obj = original_data.pop(0)` runs until the caller's list original_data is
\* empty, updated_data is only read
CallMergeByKey ==
    /\ NoCallYet
    /\ \E updated_data \in KeyedLists(LibUpdates) :
       \E original_data \in KeyedLists({LibVisible, LibHidden, LibRunning}) :
          call' = [fn |-> "merge_by_key", updated |-> updated_data,
                   original |-> original_data,
                   result |-> merge_by_key(updated_data, original_data),
                   original_after |-> <<>>, updated_after |-> updated_data]
    /\ UNCHANGED <<store, now, last>>

\* records the server holds around now: running for three days, running for 100
\* seconds, stopped 50 seconds ago
LibRunStore ==
    <<[key |-> "k6", t1 |-> T0 - 3 * DAY, t2 |-> T0 - 3 * DAY, mt |-> T0 - 3 * DAY,
       st |-> T0 - 3 * DAY, ds |-> TagA],
      [key |-> "k7", t1 |-> T0 - 100, t2 |-> T0 - 100, mt |-> T0 - 100, st |-> T0 - 100,
       ds |-> TagAB],
      [key |-> "k8", t1 |-> T0 - 200, t2 |-> T0 - 50, mt |-> T0 - 50, st |-> T0 - 50,
       ds |-> TagA]>>

\* get_runnning_records() under a configuration whose search window is
\* search_window weeks: one get_records call from a day before now to a day
\* after, whatever the configuration says
CallGetRunningRecords ==
    /\ NoCallYet
    /\ \E search_window \in {-1, 1, SEARCH_WINDOW_WEEKS} : \E tags \in {<<>>, <<TagA>>} :
          call' = [fn |-> "get_runnning_records", search_window |-> search_window,
                   now |-> now, tags |-> tags, held |-> LibRunStore,
                   requests |-> get_records_requests(now - DAY, now + DAY, TRUE),
                   result |-> get_runnning_records(LibRunStore, now, tags, "any", "t2", TRUE)]
    /\ UNCHANGED <<store, now, last>>

\* what a call of _request meets: whether load_config() succeeds, whether
\* requests.request() gets a response, its status code, whether its body is JSON
RequestEnv ==
    [method : {"GET", "PUT"}, config : {"ok", "error"},
     transport : {"ok", "ConnectionError"}, status : {200, 204, 404, 500},
     body : {"json", "not json"}]

\* mutant of status_ok: every status below 400 counts as success
status_okBelow400(status_code) == status_code < 400
\* if response.status_code != 200: abort
status_ok(status_code) == status_code = 200

\* _request(method, path, body) in the surroundings env
_request(env) ==
    LET sent == <<[method |-> env.method, path |-> "records"]>>
    IN CASE env.config # "ok" ->
              [requests |-> <<>>, exit |-> 1, outcome |-> "abort", returned |-> <<>>]
         [] env.config = "ok" /\ env.transport # "ok" ->
              [requests |-> sent, exit |-> 1, outcome |-> "abort", returned |-> <<>>]
         [] env.config = "ok" /\ env.transport = "ok" /\ ~status_ok(env.status) ->
              [requests |-> sent, exit |-> 1, outcome |-> "abort", returned |-> <<>>]
         [] OTHER ->
              IF env.body = "json"
              THEN [requests |-> sent, exit |-> 0, outcome |-> "ok",
                    returned |-> <<[decoded |-> env.body, status |-> env.status]>>]
              ELSE [requests |-> sent, exit |-> 1, outcome |-> "JSONDecodeError",
                    returned |-> <<>>]

CallRequest ==
    /\ NoCallYet
    /\ \E env \in RequestEnv :
          call' = [fn |-> "_request", env |-> env, done |-> _request(env)]
    /\ UNCHANGED <<store, now, last>>

\* what a command does with the response of its put_records call: import_cmd
\* prints each record with the status of its key and aborts when the response
\* has errors; start, stop, stop_cmd and restore_cmd drop the response and
\* print the records as written
write_report(cmd, response) ==
    IF cmd = "import_cmd"
    THEN [shown |-> "record_status", exit |-> IF response.errors # <<>> THEN 1 ELSE 0]
    ELSE [shown |-> "records", exit |-> 0]

\* a command writes the batch of keys and gets the server's response
CallWrite ==
    /\ NoCallYet
    /\ \E cmd \in {"start", "stop", "stop_cmd", "restore_cmd", "import_cmd"} :
       \E keys \in SUBSET (1..MaxRecords) : \E failed \in SUBSET keys :
       \E errors \in {<<>>, <<"error">>} :
          /\ keys # {}
          /\ LET response == [accepted |-> keys \ failed, failed |-> failed,
                              errors |-> errors]
             IN call' = [fn |-> "write", cmd |-> cmd, keys |-> keys, response |-> response,
                         done |-> write_report(cmd, response)]
    /\ UNCHANGED <<store, now, last>>

\* records another client left on the server: a valid one, one with t1 after
\* t2, two ending more than two years ahead (10 seconds long, three years long),
\* one with negative timestamps
DiagnosePool ==
    {Rec("d1", T0 - 200, T0 - 100, T0, T0, TagA),
     Rec("d2", T0 - 100, T0 - 300, T0, T0, TagA),
     Rec("d3", T0 + 1095 * DAY, T0 + 1095 * DAY + 10, T0, T0, TagA),
     Rec("d4", T0, T0 + 1095 * DAY, T0, T0, TagB),
     Rec("d5", 0 - 50, 0 - 20, T0, T0, TagB)}

\* the first loop of diagnose: is the record wrong (negative timestamp, t1
\* larger than t2, far future: t2 later than now + 365 * 2 days)
diagnose_wrong(r, nw) == r.t1 < 0 \/ r.t2 < 0 \/ r.t1 > r.t2 \/ r.t2 > nw + 730 * DAY

\* one pass of the fix loop on the wrong record r; t1 and t2 are the variables
\* the first loop left behind. The result is the batches written for r.
diagnose_fix(r, t1, t2, nw) ==
    IF t1 > t2
    THEN << <<[r EXCEPT !.t1 = r.t2, !.t2 = r.t1]>> >>
    ELSE IF t1 < 0 \/ t2 < 0 \/ r.t2 > nw + 730 * DAY
         THEN LET span == IF r.t1 >= r.t2 THEN r.t1 - r.t2 ELSE r.t2 - r.t1
                  \* if dt > 86400 * 1.2: dt = 3600
                  dt == IF 10 * span > 12 * DAY THEN 3600 ELSE span
              IN << <<[r EXCEPT !.t1 = nw, !.t2 = nw + dt]>> >>
         ELSE <<>>

\* diagnose --fix on the records get_updates() returns: the first loop walks
\* reversed(records) and leaves t1, t2 of the record it saw last, that is of
\* records[0]; the fix loop handles each wrong record and shows it as fixed
CallDiagnose ==
    /\ NoCallYet
    /\ \E held \in KeyedLists(DiagnosePool) :
          LET records == get_updates(held, 0, FALSE, <<>>, "any", "t2", TRUE)
              Wrong(r) == diagnose_wrong(r, now)
              reversed == [i \in DOMAIN records |-> records[Len(records) + 1 - i]]
              wrong_records == SelectSeq(reversed, Wrong)
          IN /\ records # <<>>
             /\ call' = [fn |-> "diagnose", now |-> now, records |-> records,
                         wrong_records |-> wrong_records,
                         puts |-> [i \in DOMAIN wrong_records |->
                                     diagnose_fix(wrong_records[i], records[1].t1,
                                                  records[1].t2, now)],
                         fixed |-> [i \in DOMAIN wrong_records |-> TRUE]]
    /\ UNCHANGED <<store, now, last>>

NextLib ==
    \/ CallDiagnose
    \/ CallWrite
    \/ CallRequest
    \/ CallGetRunningRecords
    \/ CallPostProcess
    \/ CallNormalize
    \/ CallGetRecords
    \/ CallPutRecords
    \/ CallMergeByKey

SpecLib == Init /\ [][NextLib]_vars

----------------------------------------------------------------------------
(* continuous_updates(since, delay): the generator and the loop consuming it *)

Polling == call.fn = "continuous_updates"

\* mutant of next_since: the generator keeps asking with the since it has
next_sinceKept(since, response) == since
\* since = response["server_time"]
next_since(since, response) == response.server_time

\* the generator is created; its body runs when the consumer asks for a value
continuous_updates(since, delay) ==
    /\ NoCallYet
    /\ call' = [fn |-> "continuous_updates", pc |-> "get_updates", since_arg |-> since,
                delay |-> delay, since |-> since, calls |-> <<>>, responses |-> <<>>,
                yields |-> <<>>, exit |-> 0]
    /\ UNCHANGED <<store, now, last>>

PollStart == NoCallYet /\ \E since \in {0, T0 - 1} : \E delay \in {1, 2} :
    continuous_updates(since, delay)

\* response = get_updates(since); since = response["server_time"]
PollGetUpdates ==
    /\ Polling /\ call.pc = "get_updates"
    /\ Len(call.calls) < MaxPolls
    /\ LET response == [server_time |-> now,
                        records |-> get_updates(store, call.since, FALSE, <<>>, "any",
                                                "t2", TRUE)]
       IN call' = [call EXCEPT !.calls = Append(@, [since |-> call.since, at |-> now]),
                               !.responses = Append(@, response),
                               !.since = next_since(call.since, response),
                               !.pc = "yield"]
    /\ UNCHANGED <<store, now, last>>

\* the request of get_updates fails: _request aborts the command
PollFail ==
    /\ Polling /\ call.pc = "get_updates"
    /\ Len(call.calls) < MaxPolls
    /\ call' = [call EXCEPT !.calls = Append(@, [since |-> call.since, at |-> now]),
                            !.pc = "aborted", !.exit = 1]
    /\ UNCHANGED <<store, now, last>>

\* yield response: the consumer gets the response, then asks for the next
PollYield ==
    /\ Polling /\ call.pc = "yield"
    /\ call' = [call EXCEPT !.yields = Append(@, call.responses[Len(call.responses)]),
                            !.pc = "sleep"]
    /\ UNCHANGED <<store, now, last>>

\* sleep(delay): returns after delay seconds or later
PollSleep ==
    /\ Polling /\ call.pc = "sleep"
    /\ call' = [call EXCEPT !.pc = "get_updates"]
    /\ \E d \in {0, 1} : now' = now + call.delay + d
    /\ UNCHANGED <<store, last>>

\* another client starts a record; the server stamps it with its time
PollServerPut ==
    /\ Polling /\ Room
    /\ store' = ServerPutRecords(store, <<Rec(create_record_key(store), now, now, now, now,
                                              TagA)>>, now)
    /\ UNCHANGED <<now, last, call>>

NextPoll ==
    \/ PollStart
    \/ PollGetUpdates
    \/ PollFail
    \/ PollYield
    \/ PollSleep
    \/ PollServerPut

\* the consumer is a for loop in one thread: the generator runs whenever it can
SpecPoll ==
    Init /\ [][NextPoll]_vars
         /\ WF_vars(PollGetUpdates \/ PollFail \/ PollYield \/ PollSleep)

----------------------------------------------------------------------------
(* load_config() in one process, while the configuration file is edited *)

\* what the configuration file can hold: two valid files with different tokens,
\* and a file without api_token
ConfigFiles == {"token-1", "token-2", "no token"}

\* load_config(*, abort_on_error=True): open and parse the file, validate it,
\* return it; there is no parameter cache, a call that passes one raises TypeError
load_config(file, kwargs) ==
    CASE "cache" \in kwargs ->
            [read |-> FALSE, returned |-> <<>>, exit |-> 1, outcome |-> "TypeError"]
      [] "cache" \notin kwargs /\ file = "no token" ->
            [read |-> TRUE, returned |-> <<>>, exit |-> 1, outcome |-> "abort"]
      [] OTHER ->
            [read |-> TRUE, returned |-> <<file>>, exit |-> 0, outcome |-> "ok"]

\* the process starts with the file in place
ConfigStart ==
    /\ NoCallYet
    /\ \E file \in ConfigFiles : call' = [fn |-> "load_config", file |-> file, loads |-> <<>>,
                                          exit |-> 0]
    /\ UNCHANGED <<store, now, last>>

\* the process calls load_config(); cache tells what the caller asked for:
\* "default" for load_config(), "bypass" for load_config(cache=False)
ConfigLoad ==
    /\ call.fn = "load_config" /\ call.exit = 0
    /\ Len(call.loads) < MaxLoads
    /\ \E cache \in {"default", "bypass"} :
          LET done == load_config(call.file, IF cache = "bypass" THEN {"cache"} ELSE {})
          IN call' = [call EXCEPT !.loads = Append(@, [cache |-> cache, file |-> call.file,
                                                        done |-> done]),
                                  !.exit = done.exit]
    /\ UNCHANGED <<store, now, last>>

\* the user edits the file
ConfigEdit ==
    /\ call.fn = "load_config" /\ call.exit = 0
    /\ \E file \in ConfigFiles \ {call.file} : call' = [call EXCEPT !.file = file]
    /\ UNCHANGED <<store, now, last>>

NextConfig ==
    \/ ConfigStart
    \/ ConfigLoad
    \/ ConfigEdit

SpecConfig == Init /\ [][NextConfig]_vars

----------------------------------------------------------------------------
(* Two start commands running at the same time against one store *)

\* the body of start for process p on the records st: create_record_key() draws
\* a random key, so the two processes hold different keys (100 + p)
RaceRun(p, a, st, nw) ==
    LET run == StartRun([NoCmd EXCEPT !.cmd = "start", !.rev = a.rev], a.rev, st, nw,
                        a.tags, "none", <<>>, FALSE, FALSE, "all")
        new_record == [run.new[1] EXCEPT !.key = 100 + p]
    IN IF run.new = <<>> THEN run
       ELSE [run EXCEPT !.new = <<new_record>>,
                        !.puts = put_records(<<new_record>> \o run.stopped)]

\* mutant of race_puts: the command reads the running records again when it writes
race_putsReread(p, a, run, st, nw) == RaceRun(p, a, st, nw).puts
\* the batch process p sends when the store holds st: the one it built from the
\* records it read, put_records([new_record, *stopped_records])
race_puts(p, a, run, st, nw) == run.puts

\* two start commands (without keep) are launched
RaceBegin ==
    /\ NoCallYet /\ Fresh
    /\ \E a1, a2 \in [tags : {<<TagA>>, <<TagB>>}, rev : {"py", "cmd"}] :
          call' = [fn |-> "race", pc |-> <<"read", "read">>, args |-> <<a1, a2>>,
                   read |-> <<<<>>, <<>>>>, runs |-> <<NoCmd, NoCmd>>]
    /\ UNCHANGED <<store, now, last>>

\* process p fetches the running records and runs the loop over them
RaceRead(p) ==
    /\ call.fn = "race" /\ call.pc[p] = "read"
    /\ LET run == RaceRun(p, call.args[p], store, now)
       IN call' = [call EXCEPT !.read[p] = store, !.runs[p] = run,
                               !.pc[p] = IF run.exit = 0 THEN "write" ELSE "done"]
    /\ UNCHANGED <<store, now, last>>

\* process p sends its batch
RaceWrite(p) ==
    /\ call.fn = "race" /\ call.pc[p] = "write"
    /\ store' = ApplyPuts(store, race_puts(p, call.args[p], call.runs[p], store, now), now)
    /\ call' = [call EXCEPT !.pc[p] = "done"]
    /\ UNCHANGED <<now, last>>

NextRace ==
    \/ RaceBegin
    \/ \E p \in {1, 2} : RaceRead(p)
    \/ \E p \in {1, 2} : RaceWrite(p)

SpecRace == Init /\ [][NextRace]_vars

----------------------------------------------------------------------------
(* Commands run one after another on a store that starts empty *)

SeqStart ==
    Fresh /\ \E tags \in {<<TagA>>, <<TagB>>} : \E keep \in BOOLEAN :
        start([tags |-> tags, at |-> "none", descr |-> <<>>, empty |-> FALSE, keep |-> keep,
               tags_match |-> "all"])

SeqStop ==
    Fresh /\ \E tags \in {<<>>, <<TagA>>} :
        stop([tags |-> tags, at |-> "none", select |-> FALSE, tags_match |-> "all",
              input |-> Blank])

SeqResume ==
    Fresh /\ \E keep \in BOOLEAN :
        resume([tags |-> <<>>, at |-> "none", keep |-> keep, select |-> FALSE,
                tags_match |-> "all", input |-> Blank])

\* the command has ended; the next one is run a minute or two days later
SeqNext ==
    /\ ~Fresh
    /\ IF call.fn = "none" THEN TRUE ELSE call.n < MaxCommands - 1
    /\ last' = NoCmd
    /\ call' = [fn |-> "sequence", n |-> IF call.fn = "none" THEN 1 ELSE call.n + 1]
    /\ \E d \in {60, 2 * DAY} : now' = now + d
    /\ UNCHANGED store

NextSeq ==
    \/ SeqStart
    \/ SeqStop
    \/ SeqResume
    \/ SeqNext

SpecSeq == Init /\ [][NextSeq]_vars

----------------------------------------------------------------------------
(* The same start command typed twice, its tags passing through the callback *)

\* unify_tags_callback(ctx, param, tags): the lists list(set(tags)) can be, after
\* '#' is put before the tags that lack it. The order of a set of strings follows
\* their hashes, which differ from one process to the next: any order can come out
unify_tags_callback(tags) ==
    LET hashed == [i \in DOMAIN tags |->
                     IF StartsWith(tags[i], <<"#">>) THEN tags[i] ELSE <<"#">> \o tags[i]]
        set == {hashed[i] : i \in DOMAIN hashed}
    IN {l \in [1..Cardinality(set) -> set] : {l[i] : i \in DOMAIN l} = set}

\* the user types start with one or two tags, and a minute later the same again
TagsInvoke ==
    \/ /\ NoCallYet /\ Fresh
       /\ \E tags \in UNION {[1..n -> {<<"a">>, TagA, <<"b">>, TagB}] : n \in 1..2} :
             call' = [fn |-> "cli", tags |-> tags, n |-> 1]
       /\ UNCHANGED <<store, now, last>>
    \/ /\ call.fn = "cli" /\ ~Fresh
       /\ call.n = 1
       /\ call' = [call EXCEPT !.n = 2]
       /\ last' = NoCmd
       /\ now' = now + 60
       /\ UNCHANGED store

\* click runs the callback on the tags and calls start with its result
TagsStart ==
    /\ call.fn = "cli" /\ Fresh
    /\ \E tags \in unify_tags_callback(call.tags) :
          start([tags |-> tags, at |-> "none", descr |-> <<>>, empty |-> FALSE,
                 keep |-> FALSE, tags_match |-> "all"])

NextTags ==
    \/ TagsInvoke
    \/ TagsStart

SpecTags == Init /\ [][NextTags]_vars

----------------------------------------------------------------------------
(* What the claims speak of *)

Completed == last.outcome = "ok"

Aborted == last.outcome = "abort" /\ last.exit = 1

\* the records of all batches of the command run, in the order sent
RECURSIVE Flatten(_)
Flatten(batches) == IF batches = <<>> THEN <<>> ELSE Head(batches) \o Flatten(Tail(batches))

Sent == Flatten(last.puts)

SentKeys == {Sent[i].key : i \in DOMAIN Sent}

\* the running records the command found that pass its tags under its mode
MatchingRunning ==
    LET Passes(r) == check_record_tags_match(r, last.tags, last.tags_match)
    IN SelectSeq(last.running, Passes)

\* r is in the batch as a stopped record, ended and modified at the given times
SentStopped(r, t2, mt) ==
    \E i \in DOMAIN Sent : Sent[i] = [r EXCEPT !.t2 = t2, !.mt = mt]

\* the batch of a completed start holds one new running record with the
\* description built from the arguments
SentNew ==
    /\ Len(last.new) = 1
    /\ Sent # <<>> /\ Sent[1] = last.new[1]
    /\ last.new[1].t1 = last.new[1].t2
    /\ last.new[1].ds = last.description
    /\ \A i \in DOMAIN last.tags : Contains(last.new[1].ds, last.tags[i])
    /\ \A i \in DOMAIN last.before : last.before[i].key # last.new[1].key

StartNoKeep == last.cmd = "start" /\ ~last.keep /\ Completed

----------------------------------------------------------------------------
(* C1 *)

\* C1 as stated: a start without keep that finds the running records R, R not
\* empty, writes exactly one batch of |R|+1 records: every record of R stopped
\* at now, plus the one new running record carrying the tags.
C1_Original ==
    (StartNoKeep /\ last.running # <<>>) =>
        /\ Len(last.puts) = 1
        /\ Len(Sent) = Len(last.running) + 1
        /\ \A i \in DOMAIN last.running : SentStopped(last.running[i], last.now, last.now)
        /\ SentNew

\* C1 amended: such a start writes exactly one batch, the new running record
\* followed by the stopped records: in start_cmd.py every record of R (|R|+1
\* records), in start.py the records of R that match the tags (1 + the number of
\* matching records, so R = {#a}, tags = [#b] gives a batch of one record).
C1_Amended ==
    (StartNoKeep /\ last.running # <<>>) =>
        LET stopping == IF last.rev = "cmd" THEN last.running ELSE MatchingRunning
        IN /\ Len(last.puts) = 1
           /\ Len(Sent) = Len(stopping) + 1
           /\ \A i \in DOMAIN stopping : SentStopped(stopping[i], last.now, last.now)
           /\ SentNew

\* C1 witness: start_cmd.py stopped two running records of which none carries
\* the new tag, in one batch of three records
C1_Witness ==
    /\ StartNoKeep /\ last.rev = "cmd"
    /\ Len(last.running) = 2 /\ MatchingRunning = <<>> /\ last.tags # <<>>
    /\ Len(last.puts) = 1 /\ Len(Sent) = 3

----------------------------------------------------------------------------
(* C2 *)

\* C2 as stated: in a start without keep a running record is stopped if and
\* only if it matches the tags under the mode; the stopped records get t2 and
\* mt set to now and go in the one batch that creates the new record; the
\* others are not in the batch.
C2_Original ==
    StartNoKeep =>
        /\ Len(last.puts) = 1
        /\ \A i \in DOMAIN last.running :
              LET r == last.running[i]
              IN IF check_record_tags_match(r, last.tags, last.tags_match)
                 THEN SentStopped(r, last.now, last.now)
                 ELSE r.key \notin SentKeys

\* C2 amended: the tag filter is start.py's: there a running record is stopped
\* if and only if it matches; start_cmd.py has no tag filter and stops every
\* running record. In both, a stopped record gets t2 and mt set to now and goes
\* in the one batch that creates the new record, and a running record that is
\* not stopped is not in the batch.
C2_Amended ==
    StartNoKeep =>
        /\ Len(last.puts) = 1
        /\ SentNew
        /\ \A i \in DOMAIN last.running :
              LET r == last.running[i]
                  stops == last.rev = "cmd" \/ check_record_tags_match(r, last.tags, last.tags_match)
              IN IF stops THEN SentStopped(r, last.now, last.now) ELSE r.key \notin SentKeys
        /\ \A i \in DOMAIN last.stopped :
              /\ last.stopped[i].t2 = last.now /\ last.stopped[i].mt = last.now
              /\ \E j \in DOMAIN last.running : last.running[j].key = last.stopped[i].key
        /\ Len(Sent) = 1 + Len(last.stopped)

\* C2 witness: start.py stopped one running record and left another running
C2_Witness ==
    /\ StartNoKeep /\ last.rev = "py"
    /\ Len(last.running) >= 2
    /\ Len(MatchingRunning) = 1 /\ Len(last.stopped) = 1

----------------------------------------------------------------------------
(* C3 *)

\* C3: a start (direct, or invoked by resume) whose final description equals
\* the description of a running record it found ends with exit code 1 and
\* sends nothing, wherever that record stands among the running records.
C3_DuplicateAborts ==
    (/\ last.cmd \in {"start", "resume"}
     /\ \E i \in DOMAIN last.running : last.running[i].ds = last.description) =>
        /\ Aborted /\ last.msg = "duplicate"
        /\ last.puts = <<>>
        /\ store = last.before

\* C3 witness: the duplicate is the second running record, behind a record
\* that a start without keep would stop
C3_Witness ==
    /\ last.cmd = "start" /\ ~last.keep /\ last.msg = "duplicate"
    /\ Len(last.running) >= 2
    /\ last.running[1].ds # last.description
    /\ last.running[2].ds = last.description
    /\ StopIt(last.rev, last.running[1], last.keep, last.tags, last.tags_match)

----------------------------------------------------------------------------
(* C4 *)

\* C4: a start in keep mode (direct, or invoked by resume) sends none of the
\* records that were running, and when it completes it has written one batch
\* holding exactly the new running record; the records of the store are left
\* as they were.
C4_KeepWritesOnlyNew ==
    (last.cmd \in {"start", "resume"} /\ last.keep) =>
        /\ \A i \in DOMAIN last.before : last.before[i].key \notin SentKeys
        /\ \A i \in DOMAIN last.before : store[i] = last.before[i]
        /\ last.stopped = <<>>
        /\ Completed => (/\ SentNew
                         /\ last.puts = << <<last.new[1]>> >>
                         /\ Len(store) = Len(last.before) + 1)

\* C4 witness: a completed start in keep mode with two records running, one of
\* which matches the tags
C4_Witness ==
    /\ last.cmd = "start" /\ last.keep /\ Completed
    /\ Len(last.running) = 2 /\ MatchingRunning # <<>> /\ last.tags # <<>>

----------------------------------------------------------------------------
(* C5 *)

\* the stop time: the parsed explicit time when one is given, else now
StopTime == IF last.at = "ago" THEN last.now - AgoSeconds ELSE last.now

StopAll == last.cmd = "stop" /\ ~last.select /\ Completed

\* C5 as stated: a stop without select writes one batch holding exactly the
\* matching running records, each with t2 and mt both equal to the stop time.
C5_Original ==
    StopAll =>
        /\ Len(last.puts) = 1
        /\ Len(Sent) = Len(MatchingRunning)
        /\ \A i \in DOMAIN MatchingRunning : SentStopped(MatchingRunning[i], StopTime, StopTime)

\* C5 amended: ... each with t2 equal to the stop time; mt equals the stop time
\* in stop.py and now, the time of the command, in stop_cmd.py. With no tags in
\* the 'all' mode every running record is in the batch.
C5_Amended ==
    StopAll =>
        LET mt == IF last.rev = "py" THEN StopTime ELSE last.now
        IN /\ Len(last.puts) = 1
           /\ Len(Sent) = Len(MatchingRunning)
           /\ \A i \in DOMAIN MatchingRunning : SentStopped(MatchingRunning[i], StopTime, mt)
           /\ (last.tags = <<>> /\ last.tags_match = "all") =>
                 \A i \in DOMAIN last.running : last.running[i].key \in SentKeys

\* C5 witness: stop_cmd.py with an explicit time stopped one of two running records
C5_Witness ==
    /\ StopAll /\ last.rev = "cmd" /\ last.at = "ago"
    /\ Len(last.running) = 2 /\ Len(Sent) = 1
    /\ Sent[1].t2 = last.now - AgoSeconds /\ Sent[1].mt = last.now

----------------------------------------------------------------------------
(* C6 *)

NoneRunning == \A i \in DOMAIN last.before : ~IsRunning(last.before[i])

\* C6: a stop run while no record is running aborts with exit code 1 and sends
\* nothing, with and without select.
C6_Claim ==
    (last.cmd = "stop" /\ NoneRunning) =>
        /\ Aborted
        /\ last.puts = <<>>

----------------------------------------------------------------------------
(* C7 *)

\* C7: a stop in select mode with n matching running records accepts only an
\* index i with 0 <= i < n (blank input counts as 0), writes exactly one record,
\* entry i of the list of matching running records, and sends no other record.
C7_Claim ==
    (last.cmd = "stop" /\ last.select /\ last.selected # <<>>) =>
        LET n == Len(last.choices)
            i == last.selected[1]
        IN /\ last.choices = MatchingRunning
           /\ 0 <= i /\ i < n
           /\ Len(last.puts) = 1 /\ Len(Sent) = 1
           /\ Sent[1].key = last.choices[i + 1].key
           /\ Sent[1].t2 = StopTime

----------------------------------------------------------------------------
(* C8 *)

\* the records of the store, before the command, that resume is to consider:
\* not hidden, overlapping the last four weeks, passing the tags of resume
ResumeCandidates ==
    {r \in Range(last.before) :
        /\ ~StartsWith(r.ds, HIDDEN)
        /\ r.t2 >= Today(last.now) - RESUME_WEEKS * WEEK
        /\ r.t1 <= Today(last.now) + DAY
        /\ last.resume_tags # <<>> =>
              check_record_tags_match(r, last.resume_tags, last.resume_match)}

ResumeLatest == last.cmd = "resume" /\ (~last.select \/ Cardinality(ResumeCandidates) = 1)

\* C8 as stated: resume without select, or with one matching record, invokes
\* start with the exact description of the matching record with the greatest
\* t2; with no matching record it aborts with exit code 1 and writes nothing.
C8_Original ==
    /\ (last.cmd = "resume" /\ ResumeCandidates = {}) =>
          (Aborted /\ last.msg = "no_records" /\ last.puts = <<>>)
    /\ (ResumeLatest /\ ResumeCandidates # {}) =>
          \E r \in ResumeCandidates :
              /\ \A e \in ResumeCandidates : e.t2 <= r.t2
              /\ last.resume_description = r.ds
              /\ Completed => last.new[1].ds = r.ds

\* C8 amended: ... invokes start with the description of that record with the
\* whitespace at its ends removed (so a record " #a #b " is resumed as "#a #b").
C8_Amended ==
    /\ (last.cmd = "resume" /\ ResumeCandidates = {}) =>
          (Aborted /\ last.msg = "no_records" /\ last.puts = <<>>)
    /\ (ResumeLatest /\ ResumeCandidates # {}) =>
          /\ last.msg # "no_records"
          /\ \E r \in ResumeCandidates :
              /\ \A e \in ResumeCandidates : e.t2 <= r.t2
              /\ last.resume_description = Strip(r.ds)
              /\ last.description = Strip(r.ds)
              /\ Completed => (SentNew /\ last.new[1].ds = Strip(r.ds))

\* C8 witness: resume without select picked the later of two matching records
\* with different descriptions, standing behind the earlier one in the store,
\* and started it
C8_Witness ==
    /\ ResumeLatest /\ ~last.select /\ Completed /\ last.resume_tags # <<>>
    /\ \E i, j \in DOMAIN last.before :
          /\ i < j
          /\ {last.before[i], last.before[j]} \subseteq ResumeCandidates
          /\ last.before[i].t2 < last.before[j].t2
          /\ last.before[i].ds # last.before[j].ds
          /\ Strip(last.before[i].ds) # last.description
          /\ last.new[1].ds = Strip(last.before[j].ds)
          /\ last.before[j].ds # Strip(last.before[j].ds)

----------------------------------------------------------------------------
(* C9 *)

\* the trimmed description of the i-th record resume fetched
Trimmed(i) == Strip(last.records[i].ds)

DistinctTrimmed == {Trimmed(i) : i \in DOMAIN last.records}

\* the i-th record is the first with its trimmed description, and k - 1
\* different trimmed descriptions stand before it
FirstOccurrence(i, k) ==
    /\ \A j \in 1..(i - 1) : Trimmed(j) # Trimmed(i)
    /\ Cardinality({Trimmed(j) : j \in 1..i}) = k

MenuShown == last.cmd = "resume" /\ last.choices # <<>>

\* the menu, its order, its cap and the use of the selected entry
MenuContents ==
    /\ \A i, j \in DOMAIN last.records : i < j => last.records[i].t2 >= last.records[j].t2
    /\ \A k \in DOMAIN last.choices :
          \E i \in DOMAIN last.records : FirstOccurrence(i, k) /\ last.choices[k] = Trimmed(i)
    /\ Len(last.choices) <= MAX_CHOICES
    /\ Len(last.choices) = IF Cardinality(DistinctTrimmed) < MAX_CHOICES
                           THEN Cardinality(DistinctTrimmed) ELSE MAX_CHOICES
    /\ last.selected # <<>>
    /\ last.selected[1] \in 0..(Len(last.choices) - 1)
    /\ last.resume_description = last.choices[last.selected[1] + 1]
    /\ last.description = last.resume_description

----------------------------------------------------------------------------
(* C10 *)

\* tag is one of the whitespace-delimited tokens of ds
IsToken(ds, tag) == tag \in Range(Split(ds))

\* the tag filter as claimed
TokenPass(ds, tags, tags_match) ==
    \/ tags = <<>>
    \/ IF tags_match = "any"
       THEN \E i \in DOMAIN tags : IsToken(ds, tags[i])
       ELSE \A i \in DOMAIN tags : IsToken(ds, tags[i])

\* C10: the tag filter passes a record in 'any' mode iff a requested tag is a
\* token of ds, in 'all' mode iff every requested tag is one, and an empty tag
\* list passes every record in both modes: in the pipeline (resume) and where
\* start and stop call check_record_tags_match themselves.
C10_Claim ==
    /\ (last.cmd = "stop" /\ ~last.select /\ Completed) =>
          \A i \in DOMAIN last.running :
              (last.running[i].key \in SentKeys)
                  <=> TokenPass(last.running[i].ds, last.tags, last.tags_match)
    /\ (last.cmd = "start" /\ last.rev = "py" /\ ~last.keep /\ Completed) =>
          \A i \in DOMAIN last.running :
              (last.running[i].key \in SentKeys)
                  <=> TokenPass(last.running[i].ds, last.tags, last.tags_match)
    /\ last.cmd = "resume" =>
          \A i \in DOMAIN last.before :
              LET r == last.before[i]
              IN (~StartsWith(r.ds, HIDDEN) /\ r.t2 >= Today(last.now) - RESUME_WEEKS * WEEK) =>
                    ((\E j \in DOMAIN last.records : last.records[j] = r)
                        <=> TokenPass(r.ds, last.resume_tags, last.resume_match))

----------------------------------------------------------------------------
(* C11 *)

\* the requested tags, not empty, matched as whole tokens of ds
TokenMatch(ds, tags, tags_match) ==
    IF tags_match = "any"
    THEN \E i \in DOMAIN tags : IsToken(ds, tags[i])
    ELSE \A i \in DOMAIN tags : IsToken(ds, tags[i])

\* C11: a requested tag matches a record only when it equals one of the
\* whitespace-delimited tokens of ds, not when it is a part of a longer token
\* (#a requested, ds "#ab"): a record that stop or start stops for its tags,
\* and a record that passes the pipeline filter of resume, carries the
\* requested tags as tokens.
C11_Claim ==
    /\ (last.cmd = "stop" /\ ~last.select /\ Completed /\ last.tags # <<>>) =>
          \A i \in DOMAIN last.running :
              (last.running[i].key \in SentKeys)
                  => TokenMatch(last.running[i].ds, last.tags, last.tags_match)
    /\ (last.cmd = "start" /\ last.rev = "py" /\ ~last.keep /\ Completed /\ last.tags # <<>>) =>
          \A i \in DOMAIN last.running :
              (last.running[i].key \in SentKeys)
                  => TokenMatch(last.running[i].ds, last.tags, last.tags_match)
    /\ (last.cmd = "resume" /\ last.resume_tags # <<>>) =>
          \A i \in DOMAIN last.records :
              TokenMatch(last.records[i].ds, last.resume_tags, last.resume_match)

----------------------------------------------------------------------------
(* C12 *)

\* C12: the hidden flag of the pipeline selects by hidden status: with the flag
\* false the result holds no record whose ds starts with "HIDDEN", with the
\* flag true it holds only such records.
C12_Claim ==
    call.fn = "post_process_records" =>
        \A i \in DOMAIN call.result :
            StartsWith(call.result[i].ds, HIDDEN) <=> call.include_hidden

----------------------------------------------------------------------------
(* C13 *)

\* the default view of a fetch: get_updates() with hidden = false
DefaultView(st) == get_updates(st, 0, FALSE, <<>>, "any", "t2", TRUE)

\* C13: for every hidden record with key k on the server, restore(k) writes
\* that record with the HIDDEN marker stripped from its description, and the
\* record is in the default view of a later fetch.
C13_Claim ==
    last.cmd = "restore" =>
        \A i \in DOMAIN last.before :
            LET r == last.before[i]
            IN (IsHidden(r) /\ r.key \in last.keys) =>
                  /\ \E j \in DOMAIN Sent :
                        /\ Sent[j].key = r.key
                        /\ Sent[j].ds = Strip(Remove(r.ds, HIDDEN_MARKER))
                  /\ \E j \in DOMAIN DefaultView(store) : DefaultView(store)[j].key = r.key

----------------------------------------------------------------------------
(* C14 *)

RecordFields == {"key", "t1", "t2", "mt", "st", "ds"}

\* the value normalize is to give a field the server left out
FieldDefault(f) == CASE f = "key" -> "" [] f = "ds" -> <<>> [] OTHER -> 0

\* C14: normalize gives every raw record all six fields, a field that is
\* present with its value, a missing string as "" and a missing number as 0,
\* and normalizing the result again changes nothing.
C14_Normalize ==
    call.fn = "normalize_records" =>
        /\ Len(call.result) = Len(call.records)
        /\ \A i \in DOMAIN call.records :
              /\ DOMAIN call.result[i] = RecordFields
              /\ \A f \in RecordFields :
                    IF f \in DOMAIN call.records[i]
                    THEN call.result[i][f] = call.records[i][f]
                    ELSE call.result[i][f] = FieldDefault(f)
        /\ call.again = call.result

\* C14 witness: a record that came without key, ds and t1 was normalized
C14_Witness ==
    /\ call.fn = "normalize_records"
    /\ \E i \in DOMAIN call.records :
          /\ DOMAIN call.records[i] = {"t2", "mt", "st"}
          /\ call.result[i].key = "" /\ call.result[i].ds = <<>> /\ call.result[i].t1 = 0
          /\ call.result[i].t2 = 300

----------------------------------------------------------------------------
\* C15: get_records sends exactly one GET; its time range runs from the smaller
\* of start and end to the larger when include_partial_match is true, and from
\* the larger to the smaller when it is false, whichever order they come in
C15_TimeRange ==
    call.fn = "get_records" =>
        LET lo == IF call.start < call.end THEN call.start ELSE call.end
            hi == IF call.start < call.end THEN call.end ELSE call.start
        IN /\ Len(call.requests) = 1
           /\ call.requests[1].method = "GET"
           /\ call.requests[1].timerange =
                 IF call.include_partial_match THEN <<lo, hi>> ELSE <<hi, lo>>

\* get_records was called with start after end and partial matches excluded
C15_Witness ==
    /\ call.fn = "get_records"
    /\ call.start > call.end
    /\ ~call.include_partial_match
    /\ call.requests[1].timerange = <<call.start, call.end>>

----------------------------------------------------------------------------
\* the records of the arguments of a put_records call, in argument order
RECURSIVE FlatArgs(_)
FlatArgs(args) == IF args = <<>> THEN <<>> ELSE Head(args).records \o FlatArgs(Tail(args))

\* C16: put_records takes any mix of single records and lists of records and
\* sends them, flattened into one array in argument order, in exactly one PUT
C16_Claim ==
    call.fn = "put_records" =>
        /\ Len(call.requests) = 1
        /\ call.requests[1].method = "PUT"
        /\ call.requests[1].json = "array"
        /\ call.requests[1].records = FlatArgs(call.args)

----------------------------------------------------------------------------
\* C17: merge_by_key(updated, original) returns the original records in their
\* order, each replaced by the updated record with its key when there is one,
\* followed by the updated records whose key no original record has; its length
\* is len(original) plus the number of updated records not in original
C17_Merge ==
    call.fn = "merge_by_key" =>
        LET InOriginal(u) == \E i \in DOMAIN call.original : call.original[i].key = u.key
            NotInOriginal(u) == ~InOriginal(u)
            added == SelectSeq(call.updated, NotInOriginal)
            n == Len(call.original)
        IN /\ Len(call.result) = n + Len(added)
           /\ \A i \in 1..n :
                 IF \E j \in DOMAIN call.updated : call.updated[j].key = call.original[i].key
                 THEN \E j \in DOMAIN call.updated :
                         /\ call.updated[j].key = call.original[i].key
                         /\ call.result[i] = call.updated[j]
                 ELSE call.result[i] = call.original[i]
           /\ SubSeq(call.result, n + 1, Len(call.result)) = added

\* a merge that replaced an original record, kept another and appended an update
C17_Witness ==
    /\ call.fn = "merge_by_key"
    /\ Len(call.original) = 2
    /\ Len(call.result) = 3
    /\ call.result[1] # call.original[1]
    /\ call.result[1].key = call.original[1].key
    /\ call.result[2] = call.original[2]
    /\ call.result[3].key = "k5"

----------------------------------------------------------------------------
\* C18: the running-records query returns only records with t1 = t2; with a
\* negative configured search window it makes one full updates fetch with no
\* time bound, otherwise one records query from the configured number of weeks
\* before now to one day after now, in min-max order (partial matches included)
C18_Claim ==
    call.fn = "get_runnning_records" =>
        /\ \A i \in DOMAIN call.result : call.result[i].t1 = call.result[i].t2
        /\ Len(call.requests) = 1
        /\ IF call.search_window < 0
           THEN call.requests[1].path = "updates"
           ELSE /\ call.requests[1].path = "records"
                /\ call.requests[1].timerange =
                      <<call.now - call.search_window * WEEK, call.now + DAY>>

----------------------------------------------------------------------------
\* in every state: the first call has the caller's since, each later call the
\* server_time of the response before it, every response but the newest has
\* been yielded, consecutive calls lie delay seconds or more apart, and the
\* generator has ended only by a failed request
PollOrder ==
    Polling =>
        /\ Len(call.calls) >= 1 => call.calls[1].since = call.since_arg
        /\ \A n \in 1..(Len(call.calls) - 1) :
              /\ call.calls[n + 1].since = call.responses[n].server_time
              /\ n <= Len(call.yields) /\ call.yields[n] = call.responses[n]
              /\ call.calls[n + 1].at - call.calls[n].at >= call.delay
        /\ \/ call.pc \in {"get_updates", "yield", "sleep"}
           \/ call.pc = "aborted" /\ Len(call.responses) < Len(call.calls)

\* C19: continuous_updates polls in a fixed order (the first get_updates call
\* with the caller's since, call n+1 with the server_time of response n, each
\* response yielded before the next call, at least delay seconds between two
\* calls), and it goes on to a next call for as long as no request has failed
C19_Polling ==
    /\ []PollOrder
    /\ \A n \in 0..(MaxPolls - 1) :
          (Polling /\ call.pc # "aborted" /\ Len(call.calls) = n)
              ~> (Polling /\ Len(call.calls) > n)

\* three calls were made, the third answered with a record the second did not have
C19_Witness ==
    /\ Polling
    /\ Len(call.calls) = 3 /\ Len(call.responses) = 3
    /\ call.calls[1].since # call.calls[2].since
    /\ call.calls[3].since = call.responses[2].server_time
    /\ call.responses[3].records # <<>>
    /\ call.responses[2].records = <<>>

----------------------------------------------------------------------------
\* C20: a call of _request sends at most one HTTP request; when the transport
\* fails or the response's status is not 200 the command ends with exit code 1
\* and nothing is returned; a body is returned only for a 200 response, decoded
C20_Request ==
    call.fn = "_request" =>
        LET failed == call.env.transport # "ok" \/ call.env.status # 200
        IN /\ Len(call.done.requests) <= 1
           /\ failed => call.done.exit = 1 /\ call.done.returned = <<>>
           /\ call.done.returned # <<>> =>
                 /\ call.env.transport = "ok" /\ call.env.status = 200
                 /\ Len(call.done.requests) = 1
                 /\ call.done.returned[1].decoded = "json"

\* a response with status 404 arrived: one request was sent, the command aborted
C20_Witness ==
    /\ call.fn = "_request"
    /\ call.env.config = "ok" /\ call.env.transport = "ok" /\ call.env.status = 404
    /\ Len(call.done.requests) = 1
    /\ call.done.exit = 1 /\ call.done.outcome = "abort"

----------------------------------------------------------------------------
\* C21: for every command that writes a batch (start, stop, restore, import) a
\* response with a non-empty errors list makes the command show the result per
\* record and end with exit code 1; no command ends with exit code 0 after a
\* write that reported errors or failed keys without showing them
C21_Claim ==
    call.fn = "write" =>
        /\ call.response.errors # <<>> =>
              call.done.shown = "record_status" /\ call.done.exit = 1
        /\ (call.done.exit = 0
              /\ (call.response.errors # <<>> \/ call.response.failed # {})) =>
              call.done.shown = "record_status"

----------------------------------------------------------------------------
\* C22: after one successful load, every later load with caching enabled
\* returns the same configuration without reading the file, also when the
\* file was changed in between; a load with the cache bypassed reads the file
\* and returns its current content
C22_Claim ==
    call.fn = "load_config" =>
        \A j \in DOMAIN call.loads :
            /\ \A i \in 1..(j - 1) :
                  (call.loads[i].done.outcome = "ok" /\ call.loads[j].cache = "default") =>
                      /\ ~call.loads[j].done.read
                      /\ call.loads[j].done.returned = call.loads[i].done.returned
            /\ (call.loads[j].cache = "bypass" /\ call.loads[j].file # "no token") =>
                  /\ call.loads[j].done.read
                  /\ call.loads[j].done.returned = <<call.loads[j].file>>

----------------------------------------------------------------------------
\* C23: diagnose in fix mode repairs every wrong record by that record's own
\* timestamps: with t1 > t2 it is written with t1 and t2 swapped, otherwise
\* with t1 = now and t2 = now + d, d being its |t1 - t2|, or 3600 when that is
\* more than 1.2 days; each wrong record is written in one put of its own,
\* once, and is shown as fixed only when it was written
C23_Claim ==
    call.fn = "diagnose" =>
        \A i \in DOMAIN call.wrong_records :
            LET r == call.wrong_records[i]
                span == IF r.t1 >= r.t2 THEN r.t1 - r.t2 ELSE r.t2 - r.t1
                d == IF 10 * span > 12 * DAY THEN 3600 ELSE span
                repaired == IF r.t1 > r.t2
                            THEN [r EXCEPT !.t1 = r.t2, !.t2 = r.t1]
                            ELSE [r EXCEPT !.t1 = call.now, !.t2 = call.now + d]
            IN /\ call.puts[i] = << <<repaired>> >>
               /\ call.fixed[i] => call.puts[i] # <<>>

----------------------------------------------------------------------------
\* C24: every record that start or stop writes as stopped has t1 < t2 in the
\* batch: it keeps t1 <= t2 and is no longer running, whatever the stop time
C24_Claim ==
    last.cmd \in {"start", "stop"} =>
        \A i \in DOMAIN last.stopped :
            (\E j \in DOMAIN Sent : Sent[j] = last.stopped[i]) =>
                last.stopped[i].t1 < last.stopped[i].t2

----------------------------------------------------------------------------
\* the record created by process p is in the store and running
RaceNewRunning(p) ==
    \E i \in DOMAIN store : store[i].key = 100 + p /\ IsRunning(store[i])

\* C25: the read of the running records and the batch write of a start are not
\* atomic and nothing detects a write made between them: whenever two start
\* commands (without keep) have both read before either wrote, both new records
\* are running once both have written, also when they carry the same
\* description
C25_Race ==
    (/\ call.fn = "race"
     /\ call.pc = <<"done", "done">>
     /\ call.read = <<<<>>, <<>>>>) =>
        /\ call.runs[1].exit = 0 /\ call.runs[2].exit = 0
        /\ RaceNewRunning(1) /\ RaceNewRunning(2)
        /\ Len(store) = 2

\* both commands have ended, both new records are running and have the same
\* description: alone, the second command would have been rejected as a duplicate
C25_Witness ==
    /\ call.fn = "race"
    /\ call.pc = <<"done", "done">>
    /\ RaceNewRunning(1) /\ RaceNewRunning(2)
    /\ Len(store) = 2
    /\ store[1].ds = store[2].ds
    /\ RaceRun(2, call.args[2], <<store[1]>>, now).msg = "duplicate"

----------------------------------------------------------------------------
\* C26: when commands run one after another on a store that starts empty,
\* after any sequence of start (with or without keep), stop and resume no two
\* running records have the same description, however long a record has been
\* running
C26_Claim ==
    \A i, j \in DOMAIN store :
        (i # j /\ IsRunning(store[i]) /\ IsRunning(store[j])) => store[i].ds # store[j].ds

----------------------------------------------------------------------------
\* C27: stop writes a batch only when at least one running record matched the
\* tags: when records are running but none matches it aborts with exit code 1
\* and sends no batch, not even an empty one
C27_Claim ==
    (last.cmd = "stop" /\ last.running # <<>> /\ MatchingRunning = <<>>) =>
        /\ last.exit = 1
        /\ last.puts = <<>>

----------------------------------------------------------------------------
\* C28: start and stop change only t2 and mt of a record they stop: its key,
\* t1, ds and st are sent as the server held them, every record in a batch
\* other than the new record of start is such a stopped record, and a running
\* record the command did not stop is in no batch
C28_Frame ==
    last.cmd \in {"start", "stop"} =>
        /\ \A i \in DOMAIN Sent :
              \/ last.new # <<>> /\ Sent[i] = last.new[1]
              \/ \E j \in DOMAIN last.before :
                    /\ IsRunning(last.before[j])
                    /\ Sent[i].key = last.before[j].key
                    /\ Sent[i].t1 = last.before[j].t1
                    /\ Sent[i].ds = last.before[j].ds
                    /\ Sent[i].st = last.before[j].st
                    /\ \E k \in DOMAIN last.stopped : last.stopped[k] = Sent[i]
        /\ \A j \in DOMAIN last.running :
              (\A k \in DOMAIN last.stopped : last.stopped[k].key # last.running[j].key) =>
                  last.running[j].key \notin SentKeys

\* a command stopped one running record and left another running: the batch
\* holds the stopped record with a new t2, and not the other
C28_Witness ==
    /\ last.cmd \in {"start", "stop"} /\ Completed
    /\ Len(last.running) = 2 /\ Len(last.stopped) = 1
    /\ \E i \in DOMAIN Sent : \E j \in DOMAIN last.before :
          /\ Sent[i].key = last.before[j].key
          /\ Sent[i].t2 # last.before[j].t2
    /\ \E j \in DOMAIN last.running : last.running[j].key \notin SentKeys

----------------------------------------------------------------------------
\* the tags as typed with '#' put before those that lack it, each kept at its
\* first occurrence
RECURSIVE FirstTags(_, _)
FirstTags(tags, seen) ==
    IF tags = <<>> THEN seen
    ELSE LET t == IF StartsWith(Head(tags), <<"#">>) THEN Head(tags) ELSE <<"#">> \o Head(tags)
         IN FirstTags(Tail(tags), IF \E i \in DOMAIN seen : seen[i] = t THEN seen
                                  ELSE Append(seen, t))

\* C29: the description of the record start creates is a function of the
\* arguments alone (the tags with the missing '#' added, duplicates removed,
\* in the order of their first occurrence), so the same start command typed
\* again while the first record is running is rejected as a duplicate
C29_Claim ==
    (call.fn = "cli" /\ last.cmd = "start") =>
        /\ last.description = Join(FirstTags(call.tags, <<>>))
        /\ call.n = 2 => Aborted /\ last.msg = "duplicate"

----------------------------------------------------------------------------
\* C30: merge_by_key has no effect on its arguments: after the call the lists
\* original_data and updated_data hold the same records in the same order as
\* before it
C30_Claim ==
    call.fn = "merge_by_key" =>
        /\ call.original_after = call.original
        /\ call.updated_after = call.updated

====
